---------------------------- MODULE Spec2Model ----------------------------
(***************************************************************************)
(* trapdoor: an SNMP v1 trap receiver.                                     *)
(*                                                                         *)
(*   asn1.rs    the BER-subset TLV decoder (decode_value and its readers)  *)
(*   snmp.rs    the SNMP layer (SnmpPacket::new, decode_trap)              *)
(*   server.rs  the pipeline (one receiver thread, a pool of workers,      *)
(*              a queue, a Mutex<Server> taken with try_lock)              *)
(*                                                                         *)
(* Representation.  A byte buffer is a sequence of 0..255 and a cursor is  *)
(* a position pos (bytes consumed so far).  A Result is a record with      *)
(* st = "Ok" (val, pos), st = "Err" (err) or st = "Panic" (an index out of *)
(* bounds, which unwinds the calling thread).  TLC's integers are 32 bits  *)
(* wide, so a 64-bit machine word (i64, u64, usize) is kept as its eight   *)
(* bytes, most significant first, and a u32 as its four bytes: `v <<= 8;   *)
(* v += byte` on a word whose low byte is zero after the shift drops the   *)
(* top byte and appends the new one, and `x as u32` keeps the low four.    *)
(***************************************************************************)
EXTENDS Integers, Sequences, FiniteSets, TLC

VARIABLES
    rcv,          \* receiver thread: "receiving" or "panicked"
    queue,        \* the MsQueue: a sequence of [id, pkt]
    pc,           \* worker -> "pop" | "try" | "handle" | "unlock"
    val,          \* worker -> the item it popped (NoVal when none)
    lock,         \* the Mutex<Server>: the set of workers holding it
    num_packets,  \* Server.num_packets
    received,     \* history: datagrams taken off the socket
    pushed,       \* history: packets pushed onto the queue
    lastResult,   \* history: st of the last SnmpPacket::new in the receiver
    lockedOk,     \* history: ids whose try_lock succeeded
    dropped,      \* history: ids whose try_lock failed
    handled,      \* history: ids passed to handle_packet, in order
    input,        \* decoder harness: the description of the input
    buf,          \* decoder harness: the input buffer
    op,           \* decoder harness: "none" or the call made ("value", ...)
    res           \* decoder harness: the Result of the call

vars == <<rcv, queue, pc, val, lock, num_packets, received, pushed, lastResult,
          lockedOk, dropped, handled, input, buf, op, res>>

pipeVars == <<rcv, queue, pc, val, lock, num_packets, received, pushed,
              lastResult, lockedOk, dropped, handled>>

harnessVars == <<input, buf, op, res>>

-----------------------------------------------------------------------------
(* Results *)

Ok(v, p) == [st |-> "Ok", val |-> v, pos |-> p]

Err(e) == [st |-> "Err", err |-> e]

Panic == [st |-> "Panic"]

(* ASN1Value: a tag name and a payload, always a sequence. *)
Value(t, v) == [t |-> t, v |-> v]

-----------------------------------------------------------------------------
(* Machine words *)

Zero64 == <<0, 0, 0, 0, 0, 0, 0, 0>>

\* v <<= 8; v += byte   on a 64-bit word (the shifted-out byte is lost)
Shl8Add(v, byte) == Tail(v) \o <<byte>>

\* x as u32 for a 64-bit x
Low32(v) == SubSeq(v, 5, 8)

\* a small number as a 64-bit word
Word64(n) == <<0, 0, 0, 0, 0, 0, n \div 256, n % 256>>

\* word > n, for 0 <= n < 65536
WordGreater(v, n) ==
    \/ \E i \in 1..6 : v[i] # 0
    \/ v[7] * 256 + v[8] > n

\* the number a word holds, when it is below 65536
WordToNat(v) == v[7] * 256 + v[8]

IsZero(v) == \A i \in 1..Len(v) : v[i] = 0

-----------------------------------------------------------------------------
(* asn1.rs: oid_equals.  zip stops at the end of the shorter slice. *)

oid_equals(a, b) ==
    LET n == IF Len(a) < Len(b) THEN Len(a) ELSE Len(b) IN
    \A i \in 1..n : a[i] = b[i]

-----------------------------------------------------------------------------
(* asn1.rs: tags *)

ASN1Type_from(b) ==
    CASE b = 0 -> "EndOfContents"
      [] b = 1 -> "Boolean"
      [] b = 2 -> "Integer"
      [] b = 3 -> "BitString"
      [] b = 4 -> "OctetString"
      [] b = 5 -> "Null"
      [] b = 6 -> "ObjectIdentifier"
      [] b = 7 -> "ObjectDescription"
      [] b = 48 -> "Sequence"
      [] b = 64 -> "IPAddress"
      [] b = 65 -> "Counter32"
      [] b = 66 -> "Gauge32"
      [] b = 67 -> "TimeTicks"
      [] b = 69 -> "NsapAddress"
      [] b = 70 -> "Counter64"
      [] b = 71 -> "Uinteger32"
      [] b = 128 -> "NoSuchObject"
      [] b = 129 -> "NoSuchInstance"
      [] b = 130 -> "EndOfMibView"
      [] b = 160 -> "GetRequest"
      [] b = 161 -> "GetNextRequest"
      [] b = 162 -> "GetResponse"
      [] b = 163 -> "SetRequest"
      [] b = 164 -> "Trap"
      [] b = 165 -> "GetBulkRequest"
      [] b = 166 -> "InformRequest"
      [] b = 167 -> "SnmpV2Trap"
      [] b = 168 -> "Report"
      [] OTHER -> "WrongType"

-----------------------------------------------------------------------------
(* asn1.rs: readers *)

\* reader.read_u8().map_err(Error::ByteOrder)
read_byte(b, pos) ==
    IF pos < Len(b) THEN Ok(b[pos + 1], pos + 1) ELSE Err("ByteOrder")

\* c.read_exact(&mut [0; n]): n bytes or an io::Error
read_exact(b, pos, n) ==
    IF pos + n <= Len(b) THEN Ok(SubSeq(b, pos + 1, pos + n), pos + n)
    ELSE Err("Io")

RECURSIVE read_length_loop(_, _, _, _)
read_length_loop(b, pos, n, ex_length) ==
    IF n = 0 THEN Ok(ex_length, pos)
    ELSE LET r == read_byte(b, pos) IN
         IF r.st # "Ok" THEN r
         ELSE read_length_loop(b, r.pos, n - 1, Shl8Add(ex_length, r.val))

read_length(b, pos) ==
    LET r == read_byte(b, pos) IN
    IF r.st # "Ok" THEN r
    ELSE IF r.val < 127 THEN Ok(Word64(r.val), r.pos)
    ELSE read_length_loop(b, r.pos, r.val % 128, Zero64)

RECURSIVE read_integer_loop(_, _, _, _)
read_integer_loop(b, pos, n, v) ==
    IF n = 0 THEN Ok(v, pos)
    ELSE LET r == read_byte(b, pos) IN
         IF r.st # "Ok" THEN r
         ELSE read_integer_loop(b, r.pos, n - 1, Shl8Add(v, r.val))

read_integer(b, pos, len) == read_integer_loop(b, pos, len, Zero64)

\* The accumulator r is a u32; it is at most 4 when it is shifted, so the
\* shift by 8 never loses a bit and the sum never wraps.
RECURSIVE read_base128int_loop(_, _, _)
read_base128int_loop(b, pos, r) ==
    IF r > 4 THEN Err("UnexpectedValue")
    ELSE LET rb == read_byte(b, pos) IN
         IF rb.st # "Ok" THEN rb
         ELSE LET r2 == r * 256 + (rb.val % 128) IN
              IF rb.val < 128 THEN Ok(r2, rb.pos)
              ELSE read_base128int_loop(b, rb.pos, r2)

read_base128int(b, pos) == read_base128int_loop(b, pos, 0)

RECURSIVE read_oid_loop(_, _, _, _, _)
read_oid_loop(b, pos, start, len, oid) ==
    IF pos - start < len
    THEN LET r == read_base128int(b, pos) IN
         IF r.st # "Ok" THEN r
         ELSE read_oid_loop(b, r.pos, start, len, Append(oid, r.val))
    ELSE Ok(oid, pos)

read_oid(b, pos, len) ==
    LET r == read_byte(b, pos) IN
    IF r.st # "Ok" THEN r
    ELSE read_oid_loop(b, r.pos, pos, len, <<r.val \div 40, r.val % 40>>)

RECURSIVE read_u16_loop(_, _, _, _)
read_u16_loop(b, pos, n, elements) ==
    IF n = 0 THEN Ok(elements, pos)
    ELSE IF pos + 2 > Len(b) THEN Err("ByteOrder")
    ELSE read_u16_loop(b, pos + 2, n - 1,
                       Append(elements, b[pos + 1] * 256 + b[pos + 2]))

\* IpAddr::V4 is kept as its four octets, IpAddr::V6 as its eight groups
read_ip_address(b, pos, size) ==
    IF size = 4 THEN read_exact(b, pos, 4)
    ELSE IF size = 16 THEN read_u16_loop(b, pos, 8, <<>>)
    ELSE Err("UnexpectedValue")

\* String::from_utf8: whether the bytes from index i on are well-formed UTF-8
RECURSIVE ValidUtf8(_, _)
ValidUtf8(s, i) ==
    LET n == Len(s)
        Cont(k) == k <= n /\ s[k] >= 128 /\ s[k] <= 191
        In(k, lo, hi) == k <= n /\ s[k] >= lo /\ s[k] <= hi
    IN
    IF i > n THEN TRUE
    ELSE LET c == s[i] IN
         IF c < 128 THEN ValidUtf8(s, i + 1)
         ELSE IF c >= 194 /\ c <= 223 THEN Cont(i + 1) /\ ValidUtf8(s, i + 2)
         ELSE IF c = 224 THEN In(i + 1, 160, 191) /\ Cont(i + 2) /\ ValidUtf8(s, i + 3)
         ELSE IF (c >= 225 /\ c <= 236) \/ c = 238 \/ c = 239
              THEN Cont(i + 1) /\ Cont(i + 2) /\ ValidUtf8(s, i + 3)
         ELSE IF c = 237 THEN In(i + 1, 128, 159) /\ Cont(i + 2) /\ ValidUtf8(s, i + 3)
         ELSE IF c = 240
              THEN In(i + 1, 144, 191) /\ Cont(i + 2) /\ Cont(i + 3) /\ ValidUtf8(s, i + 4)
         ELSE IF c >= 241 /\ c <= 243
              THEN Cont(i + 1) /\ Cont(i + 2) /\ Cont(i + 3) /\ ValidUtf8(s, i + 4)
         ELSE IF c = 244
              THEN In(i + 1, 128, 143) /\ Cont(i + 2) /\ Cont(i + 3) /\ ValidUtf8(s, i + 4)
         ELSE FALSE

read_tag_value(b, pos) ==
    LET rt == read_byte(b, pos) IN
    IF rt.st # "Ok" THEN rt
    ELSE LET asn_type == ASN1Type_from(rt.val) IN
         IF asn_type = "WrongType" THEN Err("WrongType")
         ELSE LET rl == read_length(b, rt.pos) IN
              IF rl.st # "Ok" THEN rl
              ELSE Ok([asn_type |-> asn_type, length |-> rl.val], rl.pos)

\* read_integer(c, length).map(|x| Variant(x as u32))
Integer32(t, r) == IF r.st # "Ok" THEN r ELSE Ok(Value(t, Low32(r.val)), r.pos)

RECURSIVE decode_value(_, _)
RECURSIVE read_sequence_loop(_, _, _, _, _)
read_sequence_loop(b, pos, start, len, out) ==
    IF pos - start < len
    THEN LET r == decode_value(b, pos) IN
         IF r.st # "Ok" THEN r
         ELSE read_sequence_loop(b, r.pos, start, len, Append(out, r.val))
    ELSE Ok(out, pos)

read_sequence(b, pos, len) == read_sequence_loop(b, pos, pos, len, <<>>)

\* the match on asn_type, once the length has passed the check
decode_content(b, pos, asn_type, length) ==
    CASE asn_type = "Sequence" ->
           LET r == read_sequence(b, pos, length) IN
           IF r.st # "Ok" THEN r ELSE Ok(Value("Sequence", r.val), r.pos)
      [] asn_type = "Integer" ->
           LET r == read_integer(b, pos, length) IN
           IF r.st # "Ok" THEN r ELSE Ok(Value("Integer", r.val), r.pos)
      [] asn_type = "OctetString" ->
           LET r == read_exact(b, pos, length) IN
           IF r.st # "Ok" THEN r
           ELSE IF ~ValidUtf8(r.val, 1) THEN Err("WrongType")
           ELSE Ok(Value("OctetString", r.val), r.pos)
      [] asn_type = "Null" -> Ok(Value("Null", <<>>), pos)
      [] asn_type = "ObjectIdentifier" ->
           LET r == read_oid(b, pos, length) IN
           IF r.st # "Ok" THEN r ELSE Ok(Value("ObjectIdentifier", r.val), r.pos)
      [] asn_type = "IPAddress" ->
           LET r == read_ip_address(b, pos, length) IN
           IF r.st # "Ok" THEN r ELSE Ok(Value("IPAddress", r.val), r.pos)
      [] asn_type = "Counter32" -> Integer32("Counter32", read_integer(b, pos, length))
      [] asn_type = "Gauge32" -> Integer32("Gauge32", read_integer(b, pos, length))
      [] asn_type = "TimeTicks" -> Integer32("TimeTicks", read_integer(b, pos, length))
      [] asn_type = "Counter64" ->
           LET r == read_integer(b, pos, length) IN
           IF r.st # "Ok" THEN r ELSE Ok(Value("Counter64", r.val), r.pos)
      [] asn_type = "Opaque" ->
           LET r == read_exact(b, pos, length) IN
           IF r.st # "Ok" THEN r ELSE Ok(Value("Opaque", r.val), r.pos)
      [] asn_type = "NoSuchObject" -> Ok(Value("NoSuchObject", <<>>), pos)
      [] asn_type = "NoSuchInstance" -> Ok(Value("NoSuchInstance", <<>>), pos)
      [] asn_type = "EndOfMibView" -> Ok(Value("EndOfMibView", <<>>), pos)
      [] asn_type = "EndOfContents" -> Ok(Value("EndOfContents", <<>>), pos)
      [] asn_type = "Trap" ->
           LET r == read_sequence(b, pos, length) IN
           IF r.st # "Ok" THEN r ELSE Ok(Value("Trap", r.val), r.pos)
      [] OTHER -> Err("WrongType")

\* `length > c.get_ref().len()` compares with the length of the whole buffer
LengthCheck(length, b) == WordGreater(length, Len(b))

decode_value(b, pos) ==
    LET rt == read_tag_value(b, pos) IN
    IF rt.st # "Ok" THEN rt
    ELSE IF LengthCheck(rt.val.length, b) THEN Err("UnexpectedValue")
    ELSE decode_content(b, rt.pos, rt.val.asn_type, WordToNat(rt.val.length))

-----------------------------------------------------------------------------
(* asn1.rs: the narrowing accessors.  On Ok only val is used. *)

as_oid(v) == IF v.t = "ObjectIdentifier" THEN Ok(v.v, 0) ELSE Err("WrongType")

as_ipaddr(v) == IF v.t = "IPAddress" THEN Ok(v.v, 0) ELSE Err("WrongType")

\* Integer(x) => Ok(x as u32): the low 32 bits of the i64
as_u32(v) ==
    IF v.t = "Integer" THEN Ok(Low32(v.v), 0)
    ELSE IF v.t = "TimeTicks" THEN Ok(v.v, 0)
    ELSE Err("WrongType")

as_string(v) == IF v.t = "OctetString" THEN Ok(v.v, 0) ELSE Err("WrongType")

as_sequence(v) ==
    IF v.t = "Sequence" \/ v.t = "Trap" THEN Ok(v.v, 0) ELSE Err("WrongType")

-----------------------------------------------------------------------------
(* snmp.rs *)

\* From<asn1::Error> for SnmpError
ASN1Error(e) == Err(<<"ASN1Error", e>>)

\* From<&str> for SnmpError
Generic(msg) == Err(<<"Generic", msg>>)

GenericTrapNames ==
    <<"ColdStart", "WarmStart", "LinkDown", "LinkUp", "AuthenticationFailure",
      "EgpNeighborLoss", "EnterpriseSpecific">>

\* b is a u32 (four bytes); the match arms are 0..6
GenericTrap_new(b) ==
    IF b[1] = 0 /\ b[2] = 0 /\ b[3] = 0 /\ b[4] <= 6
    THEN Ok(GenericTrapNames[b[4] + 1], 0)
    ELSE Generic("idk")

decode_trap(v) ==
    IF Len(v) < 6 THEN Generic("invalid length")
    ELSE
    LET oid == as_oid(v[1]) IN
    IF oid.st # "Ok" THEN ASN1Error(oid.err) ELSE
    LET addr == as_ipaddr(v[2]) IN
    IF addr.st # "Ok" THEN ASN1Error(addr.err) ELSE
    LET g == as_u32(v[3]) IN
    IF g.st # "Ok" THEN ASN1Error(g.err) ELSE
    LET trap == GenericTrap_new(g.val) IN
    IF trap.st # "Ok" THEN trap ELSE
    LET specific == as_u32(v[4]) IN
    IF specific.st # "Ok" THEN ASN1Error(specific.err) ELSE
    LET time_ticks == as_u32(v[5]) IN
    IF time_ticks.st # "Ok" THEN ASN1Error(time_ticks.err) ELSE
    LET vars_ == as_sequence(v[6]) IN
    IF vars_.st # "Ok" THEN ASN1Error(vars_.err) ELSE
    Ok([enterprise_oid |-> oid.val,
        agent_address |-> addr.val,
        generic |-> trap.val,
        specific |-> specific.val,
        time_ticks |-> time_ticks.val,
        variables |-> vars_.val], 0)

SnmpV1PDU_new(a) ==
    IF a.t = "Trap"
    THEN LET t == decode_trap(a.v) IN
         IF t.st # "Ok" THEN t ELSE Ok([pdu |-> "Trap", trap |-> t.val], 0)
    ELSE Generic("invalid type for pdu")

\* sequence[i] on a boxed slice panics when i is out of bounds
SnmpPacket_new(b) ==
    LET decoded == decode_value(b, 0) IN
    IF decoded.st # "Ok" THEN ASN1Error(decoded.err) ELSE
    LET sequence == as_sequence(decoded.val) IN
    IF sequence.st # "Ok" THEN ASN1Error(sequence.err) ELSE
    IF Len(sequence.val) < 1 THEN Panic ELSE
    LET version == as_u32(sequence.val[1]) IN
    IF version.st # "Ok" THEN ASN1Error(version.err) ELSE
    IF Len(sequence.val) < 2 THEN Panic ELSE
    LET community == as_string(sequence.val[2]) IN
    IF community.st # "Ok" THEN ASN1Error(community.err) ELSE
    IF IsZero(version.val)
    THEN IF Len(sequence.val) < 3 THEN Panic ELSE
         LET pdu == SnmpV1PDU_new(sequence.val[3]) IN
         IF pdu.st # "Ok" THEN pdu
         ELSE Ok([version |-> "V1", community |-> community.val, pdu |-> pdu.val],
                 decoded.pos)
    ELSE Generic("blah")

-----------------------------------------------------------------------------
(* Inputs.  The buffers handed to the decoder are BER encodings of the      *)
(* descriptions below (what a conforming agent sends), and raw byte strings *)
(* over a small alphabet (what anyone can send).                            *)

MaxRawLen == 3

MaxArcs == 2

MaxRun == 7

RECURSIVE Concat(_)
Concat(ss) == IF ss = <<>> THEN <<>> ELSE Head(ss) \o Concat(Tail(ss))

\* BER length octets: short form below 128, long form from 128 on
EncLen(n) ==
    IF n < 128 THEN <<n>>
    ELSE IF n < 256 THEN <<129, n>>
    ELSE <<130, n \div 256, n % 256>>

TLV(tag, content) == <<tag>> \o EncLen(Len(content)) \o content

\* the leading octets of a base-128 arc: 7 bits each, high bit set
RECURSIVE EncHigh(_)
EncHigh(x) ==
    IF x < 128 THEN <<128 + x>> ELSE EncHigh(x \div 128) \o <<128 + (x % 128)>>

EncArc(a) == IF a < 128 THEN <<a>> ELSE EncHigh(a \div 128) \o <<a % 128>>

EncOid(o) ==
    <<40 * o[1] + o[2]>> \o Concat([i \in 1..(Len(o) - 2) |-> EncArc(o[i + 2])])

\* the shortest big-endian content of a non-negative word, with a leading
\* zero octet when the top bit of the first octet would otherwise be set
RECURSIVE StripZeros(_)
StripZeros(w) ==
    IF Len(w) > 1 /\ Head(w) = 0 THEN StripZeros(Tail(w)) ELSE w

EncInt(w) ==
    LET m == StripZeros(w) IN IF Head(m) >= 128 THEN <<0>> \o m ELSE m

\* a u32 as a 64-bit word
Wide(u) == <<0, 0, 0, 0>> \o u

RECURSIVE EncValue(_)
EncValue(v) ==
    CASE v.t = "Integer" -> TLV(2, EncInt(v.v))
      [] v.t = "OctetString" -> TLV(4, v.v)
      [] v.t = "Null" -> TLV(5, <<>>)
      [] v.t = "ObjectIdentifier" -> TLV(6, EncOid(v.v))
      [] v.t = "IPAddress" -> TLV(64, v.v)
      [] v.t = "TimeTicks" -> TLV(67, EncInt(Wide(v.v)))
      [] v.t = "Sequence" -> TLV(48, Concat([i \in 1..Len(v.v) |-> EncValue(v.v[i])]))
      [] v.t = "Trap" -> TLV(164, Concat([i \in 1..Len(v.v) |-> EncValue(v.v[i])]))

Public == <<112, 117, 98, 108, 105, 99>>

TwoPow32 == <<0, 0, 0, 1, 0, 0, 0, 0>>

IfIndex == Value("ObjectIdentifier", <<1, 3, 6, 1, 2, 1, 2, 2, 1, 1, 1>>)

\* variable bindings: a (name, value) pair, an empty entry, a one-element entry
PairBinding == Value("Sequence", <<IfIndex, Value("Integer", Word64(1))>>)

EmptyBinding == Value("Sequence", <<>>)

OneBinding == Value("Sequence", <<IfIndex>>)

BindingLists ==
    { <<>>, <<PairBinding>>, <<EmptyBinding>>, <<OneBinding, PairBinding>>,
      <<PairBinding, EmptyBinding, PairBinding>> }

\* a version-1 trap message as the sender describes it
PacketDescs ==
    [ kind : {"packet"},
      version : {Word64(0), Word64(1), Word64(3), TwoPow32},
      community : {<<>>, Public},
      oid : {<<1, 3, 6, 1, 6, 3>>, <<1, 3, 6, 1, 4, 1, 311>>},
      addr : {<<23, 3, 3, 4>>},
      generic : {0, 2, 6, 7},
      specific : {<<0, 0, 0, 0>>, <<0, 0, 1, 44>>},
      ticks : {<<0, 0, 0, 0>>, <<255, 255, 255, 255>>},
      bindings : BindingLists,
      children : 0..3 ]

TrapValue(d) ==
    Value("Trap",
          << Value("ObjectIdentifier", d.oid),
             Value("IPAddress", d.addr),
             Value("Integer", Word64(d.generic)),
             Value("Integer", Wide(d.specific)),
             Value("TimeTicks", d.ticks),
             Value("Sequence", d.bindings) >>)

\* the message, cut to its first d.children elements
PacketValue(d) ==
    Value("Sequence",
          SubSeq(<< Value("Integer", d.version),
                    Value("OctetString", d.community),
                    TrapValue(d) >>, 1, d.children))

ArcValues == {0, 1, 127, 128, 840, 16384}

RECURSIVE SeqsUpTo(_, _)
SeqsUpTo(S, n) ==
    IF n = 0 THEN {<<>>}
    ELSE LET shorter == SeqsUpTo(S, n - 1) IN
         shorter \cup {Append(t, x) : t \in {u \in shorter : Len(u) = n - 1}, x \in S}

OidDescs ==
    [ kind : {"oid"}, a0 : 0..2, a1 : {0, 3, 39}, rest : SeqsUpTo(ArcValues, MaxArcs) ]

OidOf(d) == <<d.a0, d.a1>> \o d.rest

\* an OBJECT IDENTIFIER whose one arc after 1.3 is n octets with the
\* continuation bit set and low bits `payload`, then `last` (a final octet
\* below 128) or nothing when last = -1
RunDescs ==
    [ kind : {"run"}, n : 1..MaxRun, payload : {0, 1, 5}, last : {-1, 1} ]

RunBytes(d) ==
    TLV(6, <<43>> \o [i \in 1..d.n |-> 128 + d.payload]
               \o (IF d.last = -1 THEN <<>> ELSE <<d.last>>))

RawBytes == {0, 1, 2, 4, 5, 6, 48, 65, 68, 127, 129, 164}

RawDescs == [ kind : {"raw"}, bytes : SeqsUpTo(RawBytes, MaxRawLen) ]

MaxChildren == 2

MaxDeclared == 6

\* complete child TLVs: Null, Integer 1, OctetString "hi", an empty Sequence
ChildTLVs == { <<5, 0>>, <<2, 1, 1>>, <<4, 2, 104, 105>>, <<48, 0>> }

\* a Sequence (0x30) or Trap (0xa4) container whose length octet is
\* `declared`, followed by complete children: the declared length may fall
\* at a child boundary, inside a child, or past the last child
ContainerDescs ==
    [ kind : {"container"}, tag : {48, 164}, declared : 0..MaxDeclared,
      children : SeqsUpTo(ChildTLVs, MaxChildren) ]

ContainerBytes(d) == <<d.tag, d.declared>> \o Concat(d.children)

MaxContent == 2

\* one TLV with any tag octet and a short content
TlvDescs ==
    [ kind : {"tlv"}, tag : 0..255, content : SeqsUpTo({1, 200}, MaxContent) ]

MaxOidLen == 3

\* two arc lists of up to MaxOidLen arcs: equal, different, one a prefix of
\* the other, one or both empty
OidPairDescs ==
    [ kind : {"oidpair"}, a : SeqsUpTo({1, 3}, MaxOidLen),
      b : SeqsUpTo({1, 3}, MaxOidLen) ]

Encode(d) ==
    CASE d.kind = "packet" -> EncValue(PacketValue(d))
      [] d.kind = "oid" -> TLV(6, EncOid(OidOf(d)))
      [] d.kind = "run" -> RunBytes(d)
      [] d.kind = "raw" -> d.bytes
      [] d.kind = "container" -> ContainerBytes(d)
      [] d.kind = "tlv" -> TLV(d.tag, d.content)
      [] d.kind = "oidpair" -> <<>>

-----------------------------------------------------------------------------
(* server.rs: run_server *)

NumWorkers == 2

MaxDatagrams == 4

Workers == 1..NumWorkers

\* the mutex is the set of workers holding it: empty, or one worker
Free == {}

NoVal == [id |-> 0, pkt |-> <<>>]

NoInput == [kind |-> "raw", bytes |-> <<>>]

NoResult == [st |-> "None"]

ColdStartDesc ==
    [ kind |-> "packet", version |-> Word64(0), community |-> Public,
      oid |-> <<1, 3, 6, 1, 6, 3>>, addr |-> <<23, 3, 3, 4>>, generic |-> 0,
      specific |-> <<0, 0, 0, 0>>, ticks |-> <<0, 0, 0, 0>>, bindings |-> <<>>,
      children |-> 3 ]

\* the datagrams the socket delivers: two traps, an SNMPv2c message, an
\* OCTET STRING cut short, and an empty SEQUENCE
Datagrams ==
    { ColdStartDesc,
      [ColdStartDesc EXCEPT !.generic = 2, !.bindings = <<PairBinding>>],
      [ColdStartDesc EXCEPT !.version = Word64(1)],
      [kind |-> "raw", bytes |-> <<4, 2, 65>>],
      [kind |-> "raw", bytes |-> <<48, 0>>] }

PipeInit ==
    /\ rcv = "receiving"
    /\ queue = <<>>
    /\ pc = [w \in Workers |-> "pop"]
    /\ val = [w \in Workers |-> NoVal]
    /\ lock = Free
    /\ num_packets = 0
    /\ received = 0
    /\ pushed = 0
    /\ lastResult = "None"
    /\ lockedOk = {}
    /\ dropped = {}
    /\ handled = <<>>

Init ==
    /\ PipeInit
    /\ input = NoInput
    /\ buf = <<>>
    /\ op = "none"
    /\ res = NoResult

workerVars == <<pc, val, lock, num_packets, lockedOk, dropped, handled>>

\* the receiver thread is in its loop (blocked in recv_from or past it)
ReceiverReady == rcv = "receiving"

\* queue.pop() returns: the worker is at the pop and the queue holds an item
PopReady(w) == pc[w] = "pop" /\ queue # <<>>

\* socket.recv_from fails: the error is printed and the loop continues
SocketError ==
    /\ ReceiverReady
    /\ UNCHANGED vars

\* one turn of the receiver loop on datagram d: SnmpPacket::new, then
\* queue.push on Ok, `continue` on Err; a panic unwinds the receiver thread
Receive(d) ==
    /\ ReceiverReady
    /\ received < MaxDatagrams
    /\ LET bytes == Encode(d)
           r == SnmpPacket_new(bytes)
       IN /\ input' = d
          /\ buf' = bytes
          /\ received' = received + 1
          /\ lastResult' = r.st
          /\ IF r.st = "Ok"
             THEN /\ queue' = Append(queue, [id |-> pushed + 1, pkt |-> r.val])
                  /\ pushed' = pushed + 1
                  /\ rcv' = rcv
             ELSE IF r.st = "Err"
             THEN UNCHANGED <<queue, pushed, rcv>>
             ELSE /\ rcv' = "panicked"
                  /\ UNCHANGED <<queue, pushed>>
    /\ UNCHANGED <<workerVars, op, res>>

\* WorkerPop with the item left at the head of the queue (a peek): the
\* change C15 rules out
WorkerPopPeek(w) ==
    /\ PopReady(w)
    /\ val' = [val EXCEPT ![w] = Head(queue)]
    /\ pc' = [pc EXCEPT ![w] = "try"]
    /\ UNCHANGED <<rcv, queue, lock, num_packets, received, pushed, lastResult,
                   lockedOk, dropped, handled, harnessVars>>

\* let val = queue.pop();  blocks while the queue is empty
WorkerPop(w) ==
    /\ PopReady(w)
    /\ val' = [val EXCEPT ![w] = Head(queue)]
    /\ queue' = Tail(queue)
    /\ pc' = [pc EXCEPT ![w] = "try"]
    /\ UNCHANGED <<rcv, lock, num_packets, received, pushed, lastResult,
                   lockedOk, dropped, handled, harnessVars>>

\* WorkerTryLock with the popped packet put back on the queue when the lock
\* is held (a retry): the change C1 rules out
WorkerTryLockRequeue(w) ==
    /\ pc[w] = "try"
    /\ IF lock = Free
       THEN /\ lock' = {w}
            /\ pc' = [pc EXCEPT ![w] = "handle"]
            /\ lockedOk' = lockedOk \cup {val[w].id}
            /\ UNCHANGED <<val, dropped, queue>>
       ELSE /\ pc' = [pc EXCEPT ![w] = "pop"]
            /\ val' = [val EXCEPT ![w] = NoVal]
            /\ dropped' = dropped \cup {val[w].id}
            /\ queue' = Append(queue, val[w])
            /\ UNCHANGED <<lock, lockedOk>>
    /\ UNCHANGED <<rcv, num_packets, received, pushed, lastResult,
                   handled, harnessVars>>

\* if let Ok(mut s) = server.try_lock() { ... }: on Err the body is skipped,
\* val goes out of scope and the loop pops again
WorkerTryLock(w) ==
    /\ pc[w] = "try"
    /\ IF lock = Free
       THEN /\ lock' = {w}
            /\ pc' = [pc EXCEPT ![w] = "handle"]
            /\ lockedOk' = lockedOk \cup {val[w].id}
            /\ UNCHANGED <<val, dropped>>
       ELSE /\ pc' = [pc EXCEPT ![w] = "pop"]
            /\ val' = [val EXCEPT ![w] = NoVal]
            /\ dropped' = dropped \cup {val[w].id}
            /\ UNCHANGED <<lock, lockedOk>>
    /\ UNCHANGED <<rcv, queue, num_packets, received, pushed, lastResult,
                   handled, harnessVars>>

\* Server::handle_packet: self.num_packets += 1, then the match on the PDU
\* (a println for a Trap)
handle_packet(w) ==
    /\ num_packets' = num_packets + 1
    /\ handled' = Append(handled, val[w].id)
    /\ val' = [val EXCEPT ![w] = NoVal]

\* s.handle_packet(val) with the guard s held
WorkerHandle(w) ==
    /\ pc[w] = "handle"
    /\ handle_packet(w)
    /\ pc' = [pc EXCEPT ![w] = "unlock"]
    /\ UNCHANGED <<rcv, queue, lock, received, pushed, lastResult, lockedOk,
                   dropped, harnessVars>>

\* the guard is dropped at the end of the if-let body
WorkerUnlock(w) ==
    /\ pc[w] = "unlock"
    /\ lock' = Free
    /\ pc' = [pc EXCEPT ![w] = "pop"]
    /\ UNCHANGED <<rcv, queue, val, num_packets, received, pushed, lastResult,
                   lockedOk, dropped, handled, harnessVars>>

Next ==
    \/ SocketError
    \/ \E d \in Datagrams : Receive(d)
    \/ \E w \in Workers : WorkerPop(w)
    \/ \E w \in Workers : WorkerTryLock(w)
    \/ \E w \in Workers : WorkerHandle(w)
    \/ \E w \in Workers : WorkerUnlock(w)

Spec == Init /\ [][Next]_vars

\* the worker threads are scheduled fairly: a worker whose pop can return,
\* or that is past its pop, eventually takes its step.  Nothing is assumed
\* of the receiver (recv_from may block for ever).
WorkerFairness ==
    \A w \in Workers :
        /\ WF_vars(WorkerPop(w))
        /\ WF_vars(WorkerTryLock(w))
        /\ WF_vars(WorkerHandle(w))
        /\ WF_vars(WorkerUnlock(w))

FairSpec == Spec /\ WorkerFairness

-----------------------------------------------------------------------------
(* The decoder on its own: one input, one call. *)

DecodeInit ==
    /\ PipeInit
    /\ \/ input \in PacketDescs
       \/ input \in OidDescs
       \/ input \in RunDescs
       \/ input \in RawDescs
       \/ input \in ContainerDescs
       \/ input \in TlvDescs
       \/ input \in OidPairDescs
    /\ buf = Encode(input)
    /\ op = "none"
    /\ res = NoResult

\* asn1::decode_value(&mut Cursor::new(buf))
CallDecodeValue ==
    /\ op = "none"
    /\ op' = "value"
    /\ res' = decode_value(buf, 0)
    /\ UNCHANGED <<pipeVars, input, buf>>

\* SnmpPacket::new(buf)
CallSnmpPacketNew ==
    /\ op = "none"
    /\ op' = "packet"
    /\ res' = SnmpPacket_new(buf)
    /\ UNCHANGED <<pipeVars, input, buf>>

\* asn1::read_length(&mut Cursor::new(buf))
CallReadLength ==
    /\ op = "none"
    /\ op' = "length"
    /\ res' = read_length(buf, 0)
    /\ UNCHANGED <<pipeVars, input, buf>>

\* asn1::oid_equals(&a, &b)
CallOidEquals ==
    /\ op = "none"
    /\ input.kind = "oidpair"
    /\ op' = "oid_equals"
    /\ res' = Ok(oid_equals(input.a, input.b), 0)
    /\ UNCHANGED <<pipeVars, input, buf>>

DecodeNext ==
    CallDecodeValue \/ CallSnmpPacketNew \/ CallReadLength \/ CallOidEquals

DecodeSpec == DecodeInit /\ [][DecodeNext]_vars

-----------------------------------------------------------------------------
(* Properties *)

QueueIds == {queue[i].id : i \in 1..Len(queue)}

HeldIds == {val[w].id : w \in {x \in Workers : pc[x] # "pop"}}

HandledIds == {handled[i] : i \in 1..Len(handled)}

Handling == {w \in Workers : pc[w] = "handle"}

\* the state part of C1
CounterMatchesLockedHandlings ==
    /\ num_packets = Len(handled)
    /\ Cardinality(HandledIds) = Len(handled)
    /\ HandledIds \subseteq lockedOk
    /\ Cardinality(lockedOk) = num_packets + Cardinality(Handling)
    /\ lockedOk \cap dropped = {}
    /\ dropped \cap (HandledIds \cup QueueIds \cup HeldIds) = {}

\* C1: the packet counter counts exactly the popped packets whose try_lock
\* succeeded (the one whose handle_packet has not yet run excepted) and each
\* of them once; it never decreases; a packet whose try_lock failed is
\* dropped: it is not counted, not handled, not held, not back in the queue.
C1_DroppedLockProperty ==
    /\ []CounterMatchesLockedHandlings
    /\ [][num_packets' >= num_packets]_vars

\* a packet was dropped on contention while another was handled
C1_Witness == dropped # {} /\ num_packets >= 1 /\ Len(handled) >= 1

\* C2: a TLV whose declared content length exceeds the bytes that remain
\* after its length field makes decode_value fail with UnexpectedValue (not
\* with a short-read error, not with success), and the cursor stays within
\* the buffer.
C2_LengthBoundary ==
    LET h == read_tag_value(buf, 0) IN
    /\ (op = "value" /\ h.st = "Ok" /\ WordGreater(h.val.length, Len(buf) - h.pos))
           => (res.st = "Err" /\ res.err = "UnexpectedValue")
    /\ (op = "value" /\ res.st = "Ok") => res.pos <= Len(buf)

\* C3: a message whose first element is an Integer other than 0 is never
\* returned as SnmpPacket::V1, and a complete one gets the unsupported
\* version error.
C3_VersionGate ==
    (op = "packet" /\ input.kind = "packet" /\ input.children >= 1
        /\ ~IsZero(input.version))
        => (res.st # "Ok" /\ (input.children = 3 => res = Generic("blah")))

\* C4: an OBJECT IDENTIFIER arc with more than 5 octets that have the
\* continuation bit set fails with UnexpectedValue, whatever their low bits.
C4_VarintGuard ==
    (op = "value" /\ input.kind = "run" /\ input.n > 5)
        => (res.st = "Err" /\ res.err = "UnexpectedValue")

\* C5: decoding the BER encoding of an arc list gives back the arc list.
C5_OidRoundTrip ==
    (op = "value" /\ input.kind = "oid")
        => (res.st = "Ok" /\ res.val = Value("ObjectIdentifier", OidOf(input)))

WellFormedTrap ==
    /\ input.kind = "packet"
    /\ input.children = 3
    /\ IsZero(input.version)
    /\ input.generic <= 6

HasPair(binding) == Len(binding.v) >= 2

\* C6: the trap decodes and Trap.variables keeps exactly the binding
\* entries with at least 2 elements; entries with 0 or 1 element are skipped.
C6_BindingLeniency ==
    (op = "packet" /\ WellFormedTrap)
        => (res.st = "Ok"
            /\ res.val.pdu.trap.variables = SelectSeq(input.bindings, HasPair))

\* C7: a well-formed version-1 trap message decodes to V1 with the community,
\* enterprise OID, agent address, generic trap, specific code, time ticks and
\* bindings that were encoded.
C7_TrapDecode ==
    (op = "packet" /\ WellFormedTrap)
        => (/\ res.st = "Ok"
            /\ res.val.version = "V1"
            /\ res.val.community = input.community
            /\ res.val.pdu.pdu = "Trap"
            /\ res.val.pdu.trap.enterprise_oid = input.oid
            /\ res.val.pdu.trap.agent_address = input.addr
            /\ res.val.pdu.trap.generic = GenericTrapNames[input.generic + 1]
            /\ res.val.pdu.trap.specific = input.specific
            /\ res.val.pdu.trap.time_ticks = input.ticks
            /\ res.val.pdu.trap.variables = input.bindings)

\* C8: a turn of the receiver loop whose datagram does not decode pushes
\* nothing, leaves the counter alone and leaves the receiver receiving.
C8_DecodeFailureIsLocal ==
    [][(received' = received + 1 /\ lastResult' # "Ok")
         => (queue' = queue /\ num_packets' = num_packets /\ rcv' = "receiving")]_vars

\* C9: SnmpPacket::new on a Sequence/Trap container with fewer than 3
\* elements returns a WrongType error as a value.
C9_TooFewElements ==
    LET top == decode_value(buf, 0) IN
    (op = "packet" /\ top.st = "Ok" /\ top.val.t \in {"Sequence", "Trap"}
        /\ Len(top.val.v) < 3)
        => (res.st = "Err" /\ res.err \in {<<"ASN1Error", "WrongType">>, <<"WrongType">>})

WorkerStep(w) == WorkerTryLock(w) \/ WorkerHandle(w) \/ WorkerUnlock(w)

\* C10: a worker that has popped can always take its next step (the lock is
\* never waited for), and no reachable state is a deadlock: short of the
\* bound on datagrams, the receiver is in its loop or some worker can step.
C10_NoDeadlock ==
    /\ \A w \in Workers : pc[w] # "pop" => ENABLED WorkerStep(w)
    /\ received < MaxDatagrams
           => (ReceiverReady \/ \E w \in Workers : PopReady(w) \/ ENABLED WorkerStep(w))

\* the big-endian number in octets 2..n+1 of the buffer, as a 64-bit word
LongFormLength(b, n) ==
    LET padded == Zero64 \o SubSeq(b, 2, n + 1) IN
    SubSeq(padded, Len(padded) - 7, Len(padded))

\* C11: read_length on a first octet below 128 (0x7f included) returns the
\* octet's value and consumes that octet only; on a first octet from 128 on
\* its low 7 bits count the big-endian length octets that follow.
C11_ShortFormLength ==
    (op = "length" /\ buf # <<>>)
        => IF buf[1] < 128
           THEN res = Ok(Word64(buf[1]), 1)
           ELSE LET n == buf[1] - 128 IN
                Len(buf) >= n + 1 => res = Ok(LongFormLength(buf, n), n + 1)

\* C12: when decode_value succeeds on a Sequence or Trap container, the
\* bytes consumed after the container's length field are exactly the
\* declared length: a last child that runs past the declared end does not
\* give a successful decode.
C12_ContainerLength ==
    LET h == read_tag_value(buf, 0) IN
    (op = "value" /\ res.st = "Ok" /\ res.val.t \in {"Sequence", "Trap"})
        => res.pos - h.pos = WordToNat(h.val.length)

\* the tag octets of the fixed table
TagTable == (0..7) \cup {48} \cup (64..71) \cup (128..130) \cup (160..168)

\* C13: a tag octet is recognized exactly when it is in the fixed table
\* (any other octet fails with WrongType), and a TLV with tag 0x44 (Opaque)
\* or 0x45 (NsapAddress) whose content is within the buffer decodes to that
\* value holding exactly its content bytes.
C13_TagTable ==
    (op = "value" /\ input.kind = "tlv")
        => /\ input.tag \in TagTable <=> read_tag_value(buf, 0).st = "Ok"
           /\ input.tag \notin TagTable => res = Err("WrongType")
           /\ input.tag = 68 => res = Ok(Value("Opaque", input.content), Len(buf))
           /\ input.tag = 69 => res = Ok(Value("NsapAddress", input.content), Len(buf))

\* C14: oid_equals(a, b) is true exactly when a and b are the same arc
\* list: false when one is a strict prefix of the other, false when exactly
\* one of them is empty.
C14_OidEqualsExact ==
    op = "oid_equals" => (res.val <=> input.a = input.b)

\* packets in a worker's hands: popped, and not yet handled or dropped
InHand == {w \in Workers : pc[w] \in {"try", "handle"}}

InHandIds == {val[w].id : w \in InHand}

Finished == HandledIds \cup dropped

\* every pushed packet is in exactly one place
PacketConservation ==
    /\ pushed = Len(queue) + Cardinality(InHand) + Len(handled)
                   + Cardinality(dropped)
    /\ QueueIds \cup InHandIds \cup HandledIds \cup dropped = 1..pushed
    /\ Cardinality(QueueIds) = Len(queue)
    /\ Cardinality(InHandIds) = Cardinality(InHand)
    /\ Cardinality(HandledIds) = Len(handled)

\* a packet is handled or dropped only out of the hands of a worker
FinishedFromHand == (Finished' \ Finished) \subseteq InHandIds

\* C15: packet conservation.  pushed = in the queue + in a worker's hands
\* after its pop + handled + dropped, with every pushed packet in exactly one
\* of these places (so popped by one worker only); a packet is handled or
\* dropped only after a worker popped it; and when the workers are scheduled
\* fairly every pushed packet is eventually handled or dropped.
C15_PacketConservation ==
    /\ []PacketConservation
    /\ [][FinishedFromHand]_vars
    /\ \A i \in 1..MaxDatagrams : (pushed >= i) ~> (i \in Finished)

\* every pushed packet has left the pipeline, one handled and one dropped
C15_Witness ==
    /\ pushed >= 2
    /\ Finished = 1..pushed
    /\ handled # <<>>
    /\ dropped # {}

=============================================================================
